---- MODULE Spec2Model ----
\* Model of the NGAI SSE relay (src/server.js): the in-memory session store,
\* POST /prepare, GET /stream/:sessionId with its candidate loop, read loop,
\* timeout and close callbacks, the non-streaming fallback and the sweeper.
\*
\* Text is a sequence of tokens.  A token is one character ("\n", " "), the
\* five characters "data:", a sentinel text, or one complete JSON document
\* written without white space.  Bytes are the same tokens, except that the
\* two-byte character U+00E9 arrives as the bytes "0xC3" "0xA9".
EXTENDS Integers, Sequences, FiniteSets, TLC

\* ---------------------------------------------------------------- bounds
MaxSessions == 1
MaxRequests == 2
MaxReads == 2
MaxTicks == 16
MaxMessages == 3

\* ------------------------------------------------------------- constants
StreamTimeoutMs == 60000
SessionTtlMs == 1000 * 60 * 10
SweepIntervalMs == 1000 * 60 * 5
DefaultModel == "mistralai/mistral-7b-instruct:free"
FallbackModels ==
  << "openchat/openchat-7b:free",
     "huggingfaceh4/zephyr-7b-beta:free",
     "google/gemma-7b-it:free" >>

MaxTime == MaxTicks * StreamTimeoutMs
SessionIds == 1..MaxSessions
\* an id POST /prepare never returned and that names nothing on the
\* prototype chain of the `sessions` object
UnknownId == 0
\* an id POST /prepare never returned that names an inherited property of
\* the `sessions` object (constructor, __proto__, toString, ...)
InheritedId == 0 - 1
Requests == 1..MaxRequests

\* ------------------------------------------------------------ text tokens
NL == "\n"
SP == " "
DataPrefix == "data:"
\* The characters String.prototype.trim and the \s of a regular expression
\* remove: white space and line terminators, 25 in all.
Whitespace ==
  { "\t", NL, "U+000B", "\f", "\r", SP, "U+00A0", "U+1680",
    "U+2000", "U+2001", "U+2002", "U+2003", "U+2004", "U+2005", "U+2006",
    "U+2007", "U+2008", "U+2009", "U+200A",
    "U+2028", "U+2029", "U+202F", "U+205F", "U+3000", "U+FEFF" }
Replacement == "U+FFFD"

Last(s) == s[Len(s)]
Front(s) == SubSeq(s, 1, Len(s) - 1)

\* The byte order mark (bytes EF BB BF), one token.
BOM == "U+FEFF"

\* The decoder produces the character c: the first character of the stream
\* is dropped when it is the byte order mark (ignoreBOM is false).
emit(acc, bomSeen, c) == IF ~bomSeen /\ c = BOM THEN acc ELSE Append(acc, c)

\* TextDecoder("utf-8").decode(value, {stream: true}): complete characters are
\* produced, an incomplete trailing byte sequence is kept for the next call,
\* and so is whether the first character of the stream has been produced.
RECURSIVE DecodeFrom(_, _, _, _)
DecodeFrom(pending, bomSeen, bytes, acc) ==
  IF bytes = <<>> THEN [text |-> acc, pending |-> pending, bomSeen |-> bomSeen]
  ELSE LET b == Head(bytes) IN
       IF pending # <<>>
       THEN IF b = "0xA9"
            THEN DecodeFrom(<<>>, TRUE, Tail(bytes), emit(acc, bomSeen, "U+00E9"))
            ELSE DecodeFrom(<<>>, TRUE, bytes, emit(acc, bomSeen, Replacement))
       ELSE IF b = "0xC3" THEN DecodeFrom(<<b>>, bomSeen, Tail(bytes), acc)
       ELSE IF b = "0xA9"
            THEN DecodeFrom(<<>>, TRUE, Tail(bytes), emit(acc, bomSeen, Replacement))
       ELSE DecodeFrom(<<>>, TRUE, Tail(bytes), emit(acc, bomSeen, b))

decode(pending, bomSeen, value) == DecodeFrom(pending, bomSeen, value, <<>>)

\* String.prototype.trim
RECURSIVE TrimLeft(_)
TrimLeft(s) ==
  IF s # <<>> /\ Head(s) \in Whitespace THEN TrimLeft(Tail(s)) ELSE s

RECURSIVE TrimRight(_)
TrimRight(s) ==
  IF s # <<>> /\ Last(s) \in Whitespace THEN TrimRight(Front(s)) ELSE s

trim(s) == TrimRight(TrimLeft(s))

\* String.prototype.split(sep) for a separator of one or two tokens: the
\* leftmost occurrence is cut first, the rest is split again.
RECURSIVE split(_, _)
split(s, sep) ==
  LET n == Len(sep)
      hits == { k \in 1..(Len(s) - n + 1) : SubSeq(s, k, k + n - 1) = sep }
  IN IF hits = {} THEN << s >>
     ELSE LET k == CHOOSE h \in hits : \A g \in hits : h <= g
          IN << SubSeq(s, 1, k - 1) >> \o split(SubSeq(s, k + n, Len(s)), sep)

RECURSIVE MapTrim(_)
MapTrim(ls) ==
  IF ls = <<>> THEN <<>> ELSE << trim(Head(ls)) >> \o MapTrim(Tail(ls))

NonEmpty(l) == l # <<>>

\* block.split("\n").map(l => l.trim()).filter(Boolean)
LinesOf(block) == SelectSeq(MapTrim(split(block, << NL >>)), NonEmpty)

startsWithData(line) == line # <<>> /\ Head(line) = DataPrefix

\* line.replace(/^data:\s*/, "")
payloadRawOf(line) == TrimLeft(Tail(line))

RECURSIVE PayloadsOfLines(_)
PayloadsOfLines(ls) ==
  IF ls = <<>> THEN <<>>
  ELSE (IF startsWithData(Head(ls)) THEN << payloadRawOf(Head(ls)) >> ELSE <<>>)
       \o PayloadsOfLines(Tail(ls))

\* The payloads of the complete blocks, in the order the nested loops of the
\* read loop visit them; a block that is blank after trimming is skipped.
RECURSIVE PayloadsOfBlocks(_)
PayloadsOfBlocks(blocks) ==
  IF blocks = <<>> THEN <<>>
  ELSE (IF trim(Head(blocks)) = <<>> THEN <<>>
        ELSE PayloadsOfLines(LinesOf(Head(blocks))))
       \o PayloadsOfBlocks(Tail(blocks))

\* Variant: only the unquoted sentinel is recognised.
isDoneSentinelUnquoted(payloadRaw) == payloadRaw = << "[DONE]" >>

isDoneSentinel(payloadRaw) ==
  payloadRaw = << "[DONE]" >> \/ payloadRaw = << "\"[DONE]\"" >>

\* ------------------------------------------------------- JSON documents
Undef == [defined |-> FALSE, value |-> <<>>]
Str(v) == [defined |-> TRUE, value |-> v]

JHi == "{\"choices\":[{\"delta\":{\"content\":\"Hi\"}}]}"
JThere == "{\"choices\":[{\"delta\":{\"content\":\" there\"}}]}"
JFinish == "{\"choices\":[{\"delta\":{\"content\":\"!\"},\"finish_reason\":\"stop\"}]}"
JStop == "{\"choices\":[{\"delta\":{},\"finish_reason\":\"stop\"}]}"
JNullFinish == "{\"choices\":[{\"delta\":{\"content\":\"Hi\"},\"finish_reason\":null}]}"
JAll == "{\"choices\":[{\"delta\":{\"content\":\"A\"},\"message\":{\"content\":\"B\"},\"text\":\"C\"}]}"
JDeltaMessage == "{\"choices\":[{\"delta\":{\"content\":\"A\"},\"message\":{\"content\":\"B\"}}]}"
JMessage == "{\"choices\":[{\"message\":{\"content\":\"Full answer\"}}]}"
JText == "{\"choices\":[{\"text\":\"Plain\"}]}"
JEmpty == "{}"
JNull == "null"

Doc(d, m, t, f) ==
  [isNull |-> FALSE,
   deltaContent |-> d, messageContent |-> m, text |-> t, finishReason |-> f]
\* The value null: it has no properties, and reading one throws a TypeError.
NullDoc == [Doc(Undef, Undef, Undef, Undef) EXCEPT !.isNull = TRUE]

\* JSON.parse on the documents above: the value of choices[0] of each, or
\* the value null.
JsonDocs ==
  (JHi :> Doc(Str(<<"Hi">>), Undef, Undef, Undef)) @@
  (JThere :> Doc(Str(<<SP, "there">>), Undef, Undef, Undef)) @@
  (JFinish :> Doc(Str(<<"!">>), Undef, Undef, Str(<<"stop">>))) @@
  (JStop :> Doc(Undef, Undef, Undef, Str(<<"stop">>))) @@
  (JNullFinish :> Doc(Str(<<"Hi">>), Undef, Undef, Str(<<>>))) @@
  (JAll :> Doc(Str(<<"A">>), Str(<<"B">>), Str(<<"C">>), Undef)) @@
  (JDeltaMessage :> Doc(Str(<<"A">>), Str(<<"B">>), Undef, Undef)) @@
  (JMessage :> Doc(Undef, Str(<<"Full", SP, "answer">>), Undef, Undef)) @@
  (JText :> Doc(Undef, Undef, Str(<<"Plain">>), Undef)) @@
  (JEmpty :> Doc(Undef, Undef, Undef, Undef)) @@
  (JNull :> NullDoc)

\* JSON.parse(payloadRaw): any text that is not one JSON document throws.
JSONParse(payloadRaw) ==
  IF Len(payloadRaw) = 1 /\ payloadRaw[1] \in DOMAIN JsonDocs
  THEN [ok |-> TRUE, data |-> JsonDocs[payloadRaw[1]]]
  ELSE [ok |-> FALSE, data |-> JsonDocs[JEmpty]]

\* data.choices?.[0]: the optional chaining guards choices, not data, so the
\* expression throws a TypeError when data is null.
throwsTypeError(data) == data.isNull

\* A value is truthy when it is defined and is not null or the empty string.
Truthy(x) == x.defined /\ x.value # <<>>

\* Variant: the finish reason is not looked at.
extractContentNoFinish(data) ==
  LET c0 == <<>>
      c1 == IF data.deltaContent.defined THEN trim(data.deltaContent.value) ELSE c0
      c2 == IF data.messageContent.defined THEN trim(data.messageContent.value) ELSE c1
      c3 == IF data.text.defined THEN trim(data.text.value) ELSE c2
  IN [content |-> c3, shouldEnd |-> FALSE]

\* The three assignments of `content` and the one of `shouldEnd`; a later
\* assignment overwrites an earlier one.
extractContent(data) ==
  LET c0 == <<>>
      c1 == IF data.deltaContent.defined THEN trim(data.deltaContent.value) ELSE c0
      c2 == IF data.messageContent.defined THEN trim(data.messageContent.value) ELSE c1
      c3 == IF data.text.defined THEN trim(data.text.value) ELSE c2
  IN [content |-> c3, shouldEnd |-> Truthy(data.finishReason)]

\* ----------------------------------------------------------- SSE events
Event(event, data) == [event |-> event, data |-> data]
ChunkEvent(content) == Event("chunk", content)
DoneEvent == Event("done", << "[DONE]" >>)
InvalidEvent == Event("error", << "Invalid sessionId" >>)
AllFailedEvent == Event("error", << "All models failed" >>)

ParseErrorEvent == Event("error", << "Chunk parse error" >>)

\* One more payload was reached by the loop over the lines.
visit(h) == [h EXCEPT !.visited = @ + 1]

\* Variant: a payload that does not parse ends the attempt with an error.
RECURSIVE handlePayloadsAbort(_, _)
handlePayloadsAbort(payloads, sent) ==
  IF payloads = <<>> THEN [sent |-> sent, completed |-> FALSE, visited |-> 0]
  ELSE LET payloadRaw == Head(payloads) IN
       IF isDoneSentinel(payloadRaw)
       THEN [sent |-> Append(sent, DoneEvent), completed |-> TRUE, visited |-> 1]
       ELSE LET parsed == JSONParse(payloadRaw) IN
            IF ~parsed.ok \/ throwsTypeError(parsed.data)
            THEN [sent |-> Append(sent, ParseErrorEvent), completed |-> TRUE, visited |-> 1]
            ELSE LET x == extractContent(parsed.data)
                     sent1 == IF x.content # <<>>
                              THEN Append(sent, ChunkEvent(x.content))
                              ELSE sent
                 IN IF x.shouldEnd
                    THEN [sent |-> Append(sent1, DoneEvent), completed |-> TRUE, visited |-> 1]
                    ELSE visit(handlePayloadsAbort(Tail(payloads), sent1))

\* The body of the loop over the payloads of one read: the events it sends,
\* whether it reached one of the two `return` statements, and how many
\* payloads it reached.
RECURSIVE handlePayloads(_, _)
handlePayloads(payloads, sent) ==
  IF payloads = <<>> THEN [sent |-> sent, completed |-> FALSE, visited |-> 0]
  ELSE LET payloadRaw == Head(payloads) IN
       IF isDoneSentinel(payloadRaw)
       THEN [sent |-> Append(sent, DoneEvent), completed |-> TRUE, visited |-> 1]
       ELSE LET parsed == JSONParse(payloadRaw) IN
            IF ~parsed.ok \/ throwsTypeError(parsed.data)
            THEN visit(handlePayloads(Tail(payloads), sent))
            ELSE LET x == extractContent(parsed.data)
                     sent1 == IF x.content # <<>>
                              THEN Append(sent, ChunkEvent(x.content))
                              ELSE sent
                 IN IF x.shouldEnd
                    THEN [sent |-> Append(sent1, DoneEvent), completed |-> TRUE, visited |-> 1]
                    ELSE visit(handlePayloads(Tail(payloads), sent1))

\* ------------------------------------------------------------ inputs
\* Bodies of POST /prepare; model "" stands for an absent model, isArray
\* FALSE for messages that are absent or not an array.
Msg(role, content) == [role |-> role, content |-> content]
PrepareBodies ==
  { [model |-> "", messages |-> [isArray |-> FALSE, items |-> <<>>]],
    [model |-> "custom/model",
     messages |-> [isArray |-> TRUE, items |-> << Msg("user", "Hi") >>]] }

\* Every body of POST /prepare with up to MaxMessages turns: the model is
\* absent or given, the messages are not an array or an array of turns, the
\* k-th of which has the content "k".
Roles == { "system", "user", "assistant" }
Turns(n) == { [k \in 1..n |-> Msg(f[k], ToString(k))] : f \in [1..n -> Roles] }
AllMessages ==
  { [isArray |-> FALSE, items |-> <<>>] }
    \cup { [isArray |-> TRUE, items |-> t] : t \in UNION { Turns(n) : n \in 0..MaxMessages } }
AllPrepareBodies ==
  { [model |-> m, messages |-> ms] :
      m \in { "", "custom/model", "other/model" }, ms \in AllMessages }

\* What one read of the upstream body may deliver.
ChunkHi == << DataPrefix, SP, JHi, NL, NL >>
ChunkDoneThenHi == << DataPrefix, "\f", "[DONE]", NL, DataPrefix, SP, JHi, NL, NL >>
ChunkQuotedDone ==
  << DataPrefix, "\"[DONE]\"", NL, NL, DataPrefix, SP, JThere, NL, NL >>
ChunkFinish == << DataPrefix, JFinish, NL, NL >>
ChunkBadOpen == << DataPrefix, SP, "oops", NL >>
ChunkTail == << NL, DataPrefix, SP, JThere, NL, NL >>
ChunkEventLine ==
  << "event:", SP, "message", NL, DataPrefix, SP, JNull, NL,
     DataPrefix, SP, JAll, NL, NL >>
ChunkNullFinish == << DataPrefix, SP, JNullFinish, NL, NL, DataPrefix, SP, JEmpty, NL, NL >>
ChunkThereDone ==
  << DataPrefix, SP, JThere, NL, NL, DataPrefix, SP, "[DONE]", NL, NL >>
ChunkStopThenHi == << DataPrefix, SP, JStop, NL, DataPrefix, SP, JHi, NL, NL >>
UpstreamChunks ==
  { ChunkHi, ChunkDoneThenHi, ChunkQuotedDone, ChunkFinish, ChunkBadOpen, ChunkTail,
    ChunkEventLine, ChunkNullFinish, ChunkThereDone, ChunkStopThenHi }

SharedChunks == { ChunkHi, ChunkDoneThenHi, ChunkFinish }
SweepChunks == { ChunkHi, ChunkDoneThenHi }

\* Three upstream texts, and every non-empty piece of them that one read may
\* deliver: a separator, a line, or a two-byte character can be cut anywhere.
\* The third starts with a byte order mark and holds a payload after the
\* sentinel at which the loop returns.
ParserText1 == << DataPrefix, SP, JHi, NL, NL, NL, DataPrefix, JThere, NL, NL >>
ParserText2 == << DataPrefix, "0xC3", "0xA9", NL, NL, NL >>
SubTexts(t) == { SubSeq(t, a, b) : a \in 1..Len(t), b \in 1..Len(t) } \ { <<>> }
ParserText3 == << BOM, DataPrefix, "[DONE]", NL, NL, DataPrefix, JThere, NL, NL >>
Fragments ==
  SubTexts(ParserText1) \cup SubTexts(ParserText2) \cup SubTexts(ParserText3)

\* Bodies of a successful non-streaming call.
FallbackDocs == { JMessage, JText, JEmpty, JAll, JNull }

\* ------------------------------------------------------------- state
VARIABLES
  sessions,   \* the `sessions` object: session id -> {model, messages, createdAt}
  nextId,     \* the next identifier crypto.randomUUID() returns
  now,        \* Date.now()
  nextSweep,  \* when the setInterval callback runs next
  req         \* one record per GET /stream request: the handler's locals,
              \* the response, and what the upstream has been asked and sent

vars == << sessions, nextId, now, nextSweep, req >>

NoSession == [model |-> "", messages |-> <<>>, createdAt |-> 0]

\* What sessions[id] yields for an inherited property: an object or function
\* whose model, messages and createdAt are undefined.
InheritedValue == [model |-> "undefined", messages |-> <<>>, createdAt |-> 0]

IdleRequest ==
  [ pc |-> "idle", sessionId |-> 0, arrivedAt |-> 0, session |-> NoSession, i |-> 0,
    streamed |-> FALSE, reader |-> "none", timeoutHandle |-> "none",
    deadline |-> 0, closeListener |-> FALSE, buffer |-> <<>>, pending |-> <<>>, bomSeen |-> FALSE,
    primed |-> FALSE, out |-> <<>>, ended |-> FALSE, late |-> 0,
    closed |-> FALSE, afterClose |-> 0,
    reads |-> 0, received |-> <<>>, extracted |-> <<>>, calls |-> <<>> ]

Init ==
  /\ sessions = << >>
  /\ nextId = 1
  /\ now = 0
  /\ nextSweep = SweepIntervalMs
  /\ req = [r \in Requests |-> IdleRequest]

\* ----------------------------------------------------------- helpers
\* sendSSE(res, event, payload): a write to a response that has been ended
\* is not sent (counted in `late`); a write after the client has gone is
\* counted in `afterClose`.
sendSSE(q, ev) ==
  IF q.ended THEN [q EXCEPT !.late = @ + 1]
  ELSE [q EXCEPT !.out = Append(@, ev),
                 !.afterClose = IF q.closed THEN @ + 1 ELSE @]

RECURSIVE sendAll(_, _)
sendAll(q, evs) ==
  IF evs = <<>> THEN q ELSE sendAll(sendSSE(q, Head(evs)), Tail(evs))

\* initSSE(res)
initSSE(q) == [q EXCEPT !.primed = TRUE]

\* Variant: the response is left open.
endMissing(q) == q

\* res.end()
end(q) == [q EXCEPT !.ended = TRUE]

\* clearTimeout(timeoutHandle)
clearTimeout(q) ==
  IF q.timeoutHandle = "armed"
  THEN [q EXCEPT !.timeoutHandle = "cleared", !.deadline = 0]
  ELSE q

\* reader?.cancel()
cancel(q) == [q EXCEPT !.reader = IF @ = "open" THEN "cancelled" ELSE @]

\* Variant: the session is left in the store.
cleanSessionMissing(id) == sessions

\* cleanSession(id): the session store after the call
cleanSession(id) ==
  IF id \in DOMAIN sessions
  THEN [k \in DOMAIN sessions \ {id} |-> sessions[k]]
  ELSE sessions

\* Variant: the system turn is pushed at the end instead of unshifted.
standardizeMessagesPush(messages) ==
  LET m0 == IF messages.isArray THEN messages.items ELSE <<>>
      hasSystem == \E k \in 1..Len(m0) : m0[k].role = "system"
      hasUser == \E k \in 1..Len(m0) : m0[k].role = "user"
      m1 == IF ~hasSystem
            THEN Append(m0, Msg("system", "You are a helpful AI assistant."))
            ELSE m0
  IN IF ~hasUser THEN Append(m1, Msg("user", "Hello!")) ELSE m1

\* standardizeMessages(messages)
standardizeMessages(messages) ==
  LET m0 == IF messages.isArray THEN messages.items ELSE <<>>
      hasSystem == \E k \in 1..Len(m0) : m0[k].role = "system"
      hasUser == \E k \in 1..Len(m0) : m0[k].role = "user"
      m1 == IF ~hasSystem
            THEN << Msg("system", "You are a helpful AI assistant.") >> \o m0
            ELSE m0
  IN IF ~hasUser THEN Append(m1, Msg("user", "Hello!")) ELSE m1

\* const models = [session.model, ...]
models(session) == << session.model >> \o FallbackModels

\* A call of fetchOpenRouter: `result` is what the await of the call gives,
\* `body` what the await of json() on its response gives (non-streaming only).
Call(model, stream) ==
  [model |-> model, stream |-> stream, result |-> "pending", body |-> "none"]

\* the pending upstream call returns ("ok") or throws ("failed")
settle(q, result) == [q EXCEPT !.calls[Len(q.calls)].result = result]

\* await fallback.json() is pending, resolves ("parsed") or rejects ("rejected")
settleBody(q, body) == [q EXCEPT !.calls[Len(q.calls)].body = body]

\* fetchOpenRouter(model, session.messages, stream) is issued
fetchOpenRouter(q, model, stream) ==
  [q EXCEPT !.calls = Append(@, Call(model, stream))]

\* Variant: the loop condition does not test `streamed`.
forLoopIgnoringStreamed(q) ==
  IF q.i < Len(models(q.session))
  THEN fetchOpenRouter([q EXCEPT !.pc = "connecting"],
                       models(q.session)[q.i + 1], TRUE)
  ELSE [q EXCEPT !.pc = "returned"]

\* The head of the for loop, with i already set: another candidate is called
\* while i < models.length && !streamed, otherwise the handler returns.
forLoop(q) ==
  IF q.i < Len(models(q.session)) /\ ~q.streamed
  THEN fetchOpenRouter([q EXCEPT !.pc = "connecting"],
                       models(q.session)[q.i + 1], TRUE)
  ELSE [q EXCEPT !.pc = "returned"]

\* catch(streamErr): the last candidate goes on to the non-streaming call,
\* any other one to the next iteration.
catchStreamErr(q) ==
  IF q.i = Len(models(q.session)) - 1
  THEN fetchOpenRouter([q EXCEPT !.pc = "fallback"], q.session.model, FALSE)
  ELSE forLoop([q EXCEPT !.i = @ + 1])

\* An armed timer has reached its deadline.
TimerDue(r) == req[r].timeoutHandle = "armed" /\ now >= req[r].deadline
TimerPending == \E r \in Requests : req[r].timeoutHandle = "armed"

\* ----------------------------------------------------------- actions
\* POST /prepare
Prepare(body) ==
  /\ nextId <= MaxSessions
  /\ LET model == IF body.model = "" THEN DefaultModel ELSE body.model
         messages == standardizeMessages(body.messages)
     IN sessions' = sessions @@
          (nextId :> [model |-> model, messages |-> messages, createdAt |-> now])
  /\ nextId' = nextId + 1
  /\ UNCHANGED << now, nextSweep, req >>

\* const session = sessions[sessionId]: an own key of the store, else a
\* property inherited from Object.prototype, else undefined.
sessionOf(sessionId) ==
  IF sessionId \in DOMAIN sessions
  THEN [found |-> TRUE, session |-> sessions[sessionId]]
  ELSE IF sessionId = InheritedId
  THEN [found |-> TRUE, session |-> InheritedValue]
  ELSE [found |-> FALSE, session |-> NoSession]

\* GET /stream/:sessionId up to its first await
StreamRequest(r, sessionId) ==
  /\ req[r].pc = "idle"
  /\ \A p \in 1..(r - 1) : req[p].pc # "idle"
  /\ LET q0 == initSSE([req[r] EXCEPT !.sessionId = sessionId, !.arrivedAt = now]) IN
     IF ~sessionOf(sessionId).found
     THEN req' = [req EXCEPT ![r] =
                    [end(sendSSE(q0, InvalidEvent)) EXCEPT !.pc = "returned"]]
     ELSE req' = [req EXCEPT ![r] =
                    forLoop([q0 EXCEPT !.session = sessionOf(sessionId).session,
                                       !.i = 0])]
  /\ UNCHANGED << sessions, nextId, now, nextSweep >>

\* await fetchOpenRouter(model, ..., true) throws
FetchFail(r) ==
  /\ req[r].pc = "connecting"
  /\ req' = [req EXCEPT ![r] = catchStreamErr(settle(req[r], "failed"))]
  /\ UNCHANGED << sessions, nextId, now, nextSweep >>

\* Variant: no timer is armed.
FetchOkNoTimer(r) ==
  /\ req[r].pc = "connecting"
  /\ req' = [req EXCEPT ![r] =
       [settle(@, "ok") EXCEPT !.reader = "open", !.buffer = <<>>, !.pending = <<>>, !.bomSeen = FALSE,
                 !.closeListener = TRUE, !.streamed = TRUE, !.pc = "reading"]]
  /\ UNCHANGED << sessions, nextId, now, nextSweep >>

\* await fetchOpenRouter(model, ..., true) returns a response: the reader is
\* taken, the timer armed, the close listener registered, the first read issued
FetchOk(r) ==
  /\ req[r].pc = "connecting"
  /\ req' = [req EXCEPT ![r] =
       [settle(@, "ok") EXCEPT !.reader = "open", !.buffer = <<>>, !.pending = <<>>, !.bomSeen = FALSE,
                 !.timeoutHandle = "armed", !.deadline = now + StreamTimeoutMs,
                 !.closeListener = TRUE, !.streamed = TRUE, !.pc = "reading"]]
  /\ UNCHANGED << sessions, nextId, now, nextSweep >>

\* Variant: the text after the last separator is not kept for the next read.
ReadChunkNoCarry(r, value) ==
  /\ req[r].pc = "reading"
  /\ req[r].reader = "open"
  /\ req[r].reads < MaxReads
  /\ LET q == req[r]
         d == decode(q.pending, q.bomSeen, value)
         blocks == split(q.buffer \o d.text, << NL, NL >>)
         payloads == PayloadsOfBlocks(Front(blocks))
         h == handlePayloads(payloads, <<>>)
         q1 == [q EXCEPT !.pending = d.pending, !.bomSeen = d.bomSeen, !.buffer = <<>>,
                         !.reads = @ + 1, !.received = @ \o value,
                         !.extracted = @ \o SubSeq(payloads, 1, h.visited)]
     IN IF h.completed
        THEN /\ req' = [req EXCEPT ![r] =
                  [end(cancel(sendAll(clearTimeout(q1), h.sent)))
                     EXCEPT !.pc = "returned"]]
             /\ sessions' = cleanSession(q.sessionId)
        ELSE /\ req' = [req EXCEPT ![r] = sendAll(q1, h.sent)]
             /\ UNCHANGED sessions
  /\ UNCHANGED << nextId, now, nextSweep >>

\* await reader.read() resolves with bytes
ReadChunk(r, value) ==
  /\ req[r].pc = "reading"
  /\ req[r].reader = "open"
  /\ req[r].reads < MaxReads
  /\ LET q == req[r]
         d == decode(q.pending, q.bomSeen, value)
         blocks == split(q.buffer \o d.text, << NL, NL >>)
         payloads == PayloadsOfBlocks(Front(blocks))
         h == handlePayloads(payloads, <<>>)
         q1 == [q EXCEPT !.pending = d.pending, !.bomSeen = d.bomSeen,
                         !.buffer = Last(blocks),
                         !.reads = @ + 1, !.received = @ \o value,
                         !.extracted = @ \o SubSeq(payloads, 1, h.visited)]
     IN IF h.completed
        THEN /\ req' = [req EXCEPT ![r] =
                  [end(cancel(sendAll(clearTimeout(q1), h.sent)))
                     EXCEPT !.pc = "returned"]]
             /\ sessions' = cleanSession(q.sessionId)
        ELSE /\ req' = [req EXCEPT ![r] = sendAll(q1, h.sent)]
             /\ UNCHANGED sessions
  /\ UNCHANGED << nextId, now, nextSweep >>

\* await reader.read() resolves with done: the body ended or was cancelled
ReadDone(r) ==
  /\ req[r].pc = "reading"
  /\ req' = [req EXCEPT ![r] = forLoop([@ EXCEPT !.i = @ + 1])]
  /\ UNCHANGED << sessions, nextId, now, nextSweep >>

\* await reader.read() rejects
ReadError(r) ==
  /\ req[r].pc = "reading"
  /\ req[r].reader = "open"
  /\ req' = [req EXCEPT ![r] = catchStreamErr(req[r])]
  /\ UNCHANGED << sessions, nextId, now, nextSweep >>

\* await fetchOpenRouter(session.model, ..., false) returns a response; the
\* handler goes on to await fallback.json()
FallbackReturns(r) ==
  /\ req[r].pc = "fallback"
  /\ req' = [req EXCEPT ![r] =
       [settleBody(settle(@, "ok"), "pending") EXCEPT !.pc = "fallbackJson"]]
  /\ UNCHANGED << sessions, nextId, now, nextSweep >>

\* await fallback.json() rejects (the body is not JSON): catch(fallbackErr)
FallbackJsonFail(r) ==
  /\ req[r].pc = "fallbackJson"
  /\ req' = [req EXCEPT ![r] =
       [end(sendSSE(settleBody(@, "rejected"), AllFailedEvent))
          EXCEPT !.pc = "returned"]]
  /\ sessions' = cleanSession(req[r].sessionId)
  /\ UNCHANGED << nextId, now, nextSweep >>

\* await fallback.json() resolves with the parsed body: the text is written
\* as one chunk followed by done, or reading the text throws and
\* catch(fallbackErr) writes the error event
FallbackOk(r, doc) ==
  /\ req[r].pc = "fallbackJson"
  /\ LET json == JsonDocs[doc]
         text == IF Truthy(json.messageContent) THEN json.messageContent.value
                 ELSE IF Truthy(json.text) THEN json.text.value
                 ELSE << "No response" >>
         q == settleBody(req[r], "parsed")
     IN req' = [req EXCEPT ![r] =
          [(IF throwsTypeError(json)
            THEN end(sendSSE(q, AllFailedEvent))
            ELSE end(sendSSE(sendSSE(q, ChunkEvent(text)), DoneEvent)))
             EXCEPT !.pc = "returned"]]
  /\ sessions' = cleanSession(req[r].sessionId)
  /\ UNCHANGED << nextId, now, nextSweep >>

\* await fetchOpenRouter(session.model, ..., false) throws: catch(fallbackErr)
FallbackFail(r) ==
  /\ req[r].pc = "fallback"
  /\ req' = [req EXCEPT ![r] =
       [end(sendSSE(settle(@, "failed"), AllFailedEvent)) EXCEPT !.pc = "returned"]]
  /\ sessions' = cleanSession(req[r].sessionId)
  /\ UNCHANGED << nextId, now, nextSweep >>

TimeoutEvent == Event("error", << "Stream timeout" >>)

\* Variant: the timeout is reported as an error.
TimeoutAsError(r) ==
  /\ TimerDue(r)
  /\ req' = [req EXCEPT ![r] =
       [end(cancel(sendSSE(@, TimeoutEvent)))
          EXCEPT !.timeoutHandle = "fired", !.deadline = 0]]
  /\ sessions' = cleanSession(req[r].sessionId)
  /\ UNCHANGED << nextId, now, nextSweep >>

\* the setTimeout callback
Timeout(r) ==
  /\ TimerDue(r)
  /\ req' = [req EXCEPT ![r] =
       [end(cancel(sendSSE(@, DoneEvent)))
          EXCEPT !.timeoutHandle = "fired", !.deadline = 0]]
  /\ sessions' = cleanSession(req[r].sessionId)
  /\ UNCHANGED << nextId, now, nextSweep >>

\* the connection of the request closes; the listener runs if registered
ClientClose(r) ==
  /\ req[r].pc # "idle"
  /\ ~req[r].closed
  /\ IF req[r].closeListener
     THEN /\ req' = [req EXCEPT ![r] =
               [cancel(clearTimeout(@)) EXCEPT !.closed = TRUE]]
          /\ sessions' = cleanSession(req[r].sessionId)
     ELSE /\ req' = [req EXCEPT ![r].closed = TRUE]
          /\ UNCHANGED sessions
  /\ UNCHANGED << nextId, now, nextSweep >>

\* Variant: a session is removed as soon as its age reaches the limit.
SweepAtLimit ==
  /\ now >= nextSweep
  /\ sessions' = [k \in { id \in DOMAIN sessions :
                            ~(now - sessions[id].createdAt >= SessionTtlMs) }
                    |-> sessions[k]]
  /\ nextSweep' = nextSweep + SweepIntervalMs
  /\ UNCHANGED << nextId, now, req >>

\* the setInterval callback
Sweep ==
  /\ now >= nextSweep
  /\ sessions' = [k \in { id \in DOMAIN sessions :
                            ~(now - sessions[id].createdAt > SessionTtlMs) }
                    |-> sessions[k]]
  /\ nextSweep' = nextSweep + SweepIntervalMs
  /\ UNCHANGED << nextId, now, req >>

\* Time passes, by the period of the shortest timer; a callback that is due
\* runs before time passes further.  Past the horizon time passes only while
\* an armed timer is waited for.
Tick(horizon) ==
  /\ \A r \in Requests : ~TimerDue(r)
  /\ now < nextSweep
  /\ IF now < horizon THEN TRUE ELSE TimerPending
  /\ now' = now + StreamTimeoutMs
  /\ UNCHANGED << sessions, nextId, nextSweep, req >>

\* The steps of one stream request after its first await.
Relay(r, chunks) ==
  \/ FetchFail(r)
  \/ FetchOk(r)
  \/ \E value \in chunks : ReadChunk(r, value)
  \/ ReadDone(r)
  \/ ReadError(r)
  \/ FallbackReturns(r)
  \/ \E doc \in FallbackDocs : FallbackOk(r, doc)
  \/ FallbackJsonFail(r)
  \/ FallbackFail(r)
  \/ Timeout(r)
  \/ ClientClose(r)

\* Concurrent stream requests.  No session lives long enough for the
\* sweeper to be due: time passes only while a 60 s timer is waited for.
Next ==
  \/ \E body \in PrepareBodies : Prepare(body)
  \/ \E r \in Requests, sessionId \in SessionIds : StreamRequest(r, sessionId)
  \/ \E r \in Requests : Relay(r, SharedChunks)
  \/ Tick(0)

Spec == Init /\ [][Next]_vars

\* One stream request against every kind of upstream body.
StreamNext ==
  \/ \E body \in PrepareBodies : Prepare(body)
  \/ \E sessionId \in SessionIds \cup { UnknownId, InheritedId } :
       StreamRequest(1, sessionId)
  \/ Relay(1, UpstreamChunks)
  \/ Tick(0)

StreamSpec == Init /\ [][StreamNext]_vars

\* One stream request, the sweeper, and time up to MaxTime.
SweepNext ==
  \/ \E body \in PrepareBodies : Prepare(body)
  \/ \E sessionId \in SessionIds : StreamRequest(1, sessionId)
  \/ Relay(1, SweepChunks)
  \/ Sweep
  \/ Tick(MaxTime)

SweepSpec == Init /\ [][SweepNext]_vars

\* Sessions created at any time up to MaxTime, the sweeper, and one stream
\* request that may be waiting for a candidate or for its body when a sweep
\* runs, and whose body ends or is cancelled by the timer.
TtlNext ==
  \/ \E body \in PrepareBodies : Prepare(body)
  \/ \E sessionId \in SessionIds : StreamRequest(1, sessionId)
  \/ FetchOk(1)
  \/ ReadDone(1)
  \/ Timeout(1)
  \/ Sweep
  \/ Tick(MaxTime)

TtlSpec == Init /\ [][TtlNext]_vars

\* One stream request under the scheduling the claims assume: every upstream
\* call returns or fails, every pending read resolves, every armed timer fires.
LiveSpec ==
  /\ Init /\ [][StreamNext]_vars
  /\ WF_vars(FetchFail(1) \/ FetchOk(1))
  /\ WF_vars(ReadDone(1) \/ ReadError(1) \/ \E value \in UpstreamChunks : ReadChunk(1, value))
  /\ WF_vars(FallbackFail(1) \/ FallbackReturns(1))
  /\ WF_vars(FallbackJsonFail(1) \/ \E doc \in FallbackDocs : FallbackOk(1, doc))
  /\ WF_vars(Timeout(1))
  /\ WF_vars(Tick(0))

\* One stream request whose upstream body arrives cut into arbitrary pieces;
\* its session is prepared from a body with a message list.
ParserBodies == { body \in PrepareBodies : body.messages.isArray }
ParserNext ==
  \/ \E body \in ParserBodies : Prepare(body)
  \/ \E sessionId \in SessionIds : StreamRequest(1, sessionId)
  \/ FetchOk(1)
  \/ \E value \in Fragments : ReadChunk(1, value)

ParserSpec == Init /\ [][ParserNext]_vars

\* POST /prepare alone, on every body.
PrepareNext == \E body \in AllPrepareBodies : Prepare(body)

PrepareSpec == Init /\ [][PrepareNext]_vars

\* ================================================================ claims
IsChunk(e) == e.event = "chunk"
IsTerminal(e) == e.event \in {"done", "error"}
Chunks(out) == SelectSeq(out, IsChunk)
HasTerminal(out) == \E k \in 1..Len(out) : IsTerminal(out[k])

\* The request found its session and went on to call the upstream.
Found(r) == req[r].calls # <<>>
\* The request was answered with the one error event for an invalid id.
Rejected(q) == q.out = << InvalidEvent >> /\ q.ended /\ q.calls = <<>>
\* The step in which the GET request of r arrives.
Arrives(r) == req[r].pc = "idle" /\ req'[r].pc # "idle"

StreamingCalls(q) == { k \in 1..Len(q.calls) : q.calls[k].stream }
NonStreamingCalls(q) == { k \in 1..Len(q.calls) : ~q.calls[k].stream }

\* The payloads of everything the streaming candidate has sent, parsed as
\* one contiguous text.
ReceivedPayloads(q) ==
  PayloadsOfBlocks(Front(split(decode(<<>>, FALSE, q.received).text, << NL, NL >>)))

IsSentinel(p) == p \in { << "[DONE]" >>, << "\"[DONE]\"" >> }

\* The chunks a sequence of payloads stands for: one per payload with
\* non-empty content, up to the first sentinel or finish-reason payload.
RECURSIVE DerivedChunks(_)
DerivedChunks(ps) ==
  IF ps = <<>> THEN <<>>
  ELSE LET p == Head(ps)
           j == JSONParse(p)
           x == extractContent(j.data)
       IN IF IsSentinel(p) THEN <<>>
          ELSE IF ~j.ok THEN DerivedChunks(Tail(ps))
          ELSE (IF x.content # <<>> THEN << ChunkEvent(x.content) >> ELSE <<>>)
               \o (IF x.shouldEnd THEN <<>> ELSE DerivedChunks(Tail(ps)))

\* C1: the events written to the client of a stream request are chunk events
\* followed by at most one terminal event; nothing is written after a
\* terminal event.
C1_ChunksThenOneTerminal ==
  \A r \in Requests :
    \A k \in 1..Len(req[r].out) :
      IsTerminal(req[r].out[k]) => k = Len(req[r].out)

\* A request that streamed chunks, was ended with a terminal event, and on
\* which a later write was attempted.
C1_Witness ==
  \E r \in Requests :
    /\ Chunks(req[r].out) # <<>>
    /\ IsTerminal(Last(req[r].out))
    /\ req[r].late > 0

\* C2: under LiveSpec, a request that found its session eventually has a
\* terminal event written and its connection ended by the server, unless the
\* client disconnects.
C2_EventuallyTerminal ==
  Found(1) ~> (req[1].closed \/ (req[1].ended /\ HasTerminal(req[1].out)))

\* The body ended without a sentinel, the handler returned, and the timer
\* delivered the terminal event.
C2_Witness ==
  /\ req[1].pc = "returned"
  /\ req[1].timeoutHandle = "fired"
  /\ ~req[1].closed
  /\ req[1].ended
  /\ Last(req[1].out) = DoneEvent

\* C3: a session is single-use: at most one stream request finds a given
\* session and issues upstream calls for it.
C3_SingleUse ==
  \A r1, r2 \in Requests :
    (Found(r1) /\ Found(r2) /\ req[r1].sessionId = req[r2].sessionId) => r1 = r2

\* C4: once a stream attempt for a session id has ended (the server ended
\* the connection, or the client disconnected), a request that arrives later
\* with that id is rejected with the one error event and calls no upstream.
C4_RejectedAfterEnd ==
  [][ \A r \in Requests :
        ( /\ Arrives(r)
          /\ \E p \in Requests \ {r} :
               /\ Found(p)
               /\ req[p].sessionId = req'[r].sessionId
               /\ (req[p].ended \/ req[p].closed) )
        => Rejected(req'[r]) ]_vars

\* C5: a request that arrives for a session older than the time-to-live is
\* rejected with the error event, whether or not the sweeper has run.
C5_ExpiredRejected ==
  [][ \A r \in Requests :
        ( /\ Arrives(r)
          /\ req'[r].sessionId \in DOMAIN sessions
          /\ now - sessions[req'[r].sessionId].createdAt > SessionTtlMs )
        => Rejected(req'[r]) ]_vars

\* C6: whenever the server has ended the connection of a stream request that
\* found its session, that session id is absent from the session store.
C6_EndedImpliesDeleted ==
  \A r \in Requests :
    (Found(r) /\ req[r].ended) => req[r].sessionId \notin DOMAIN sessions

\* Two requests found the same session; one has been ended by the server
\* while the other is still reading.
C6_Witness ==
  \E r1, r2 \in Requests :
    /\ r1 # r2
    /\ Found(r1) /\ Found(r2)
    /\ req[r1].sessionId = req[r2].sessionId
    /\ req[r1].ended
    /\ req[r2].pc = "reading"

\* C7: the streaming calls of a request are a prefix of the candidate list in
\* order, every one but the last has failed, and the non-streaming call is
\* issued at most once, last, with the session's original model.
C7_CandidateOrder ==
  \A r \in Requests :
    LET q == req[r]
        S == StreamingCalls(q)
        N == NonStreamingCalls(q)
    IN /\ Cardinality(S) <= 4
       /\ S = 1..Cardinality(S)
       /\ \A k \in S : q.calls[k].model = models(q.session)[k]
       /\ \A k \in S : k < Cardinality(S) => q.calls[k].result = "failed"
       /\ Cardinality(N) <= 1
       /\ \A k \in N : k = Len(q.calls) /\ q.calls[k].model = q.session.model

\* All four candidates and the non-streaming call were issued for a session
\* with a model of its own.
C7_Witness ==
  \E r \in Requests :
    /\ Len(req[r].calls) = 5
    /\ req[r].session.model = "custom/model"
    /\ ~req[r].calls[5].stream

\* C8: when a candidate reaches Streaming, the chunks the client receives are
\* exactly those derived, in order and one per payload, from that
\* candidate's body.
C8_ChunksFromStreamingCandidate ==
  \A r \in Requests :
    (\E k \in StreamingCalls(req[r]) : req[r].calls[k].result = "ok")
      => Chunks(req[r].out) = DerivedChunks(ReceivedPayloads(req[r]))

\* The non-streaming call of the request has failed: the call threw, or it
\* returned a response whose body could not be parsed.
FallbackFailed(q) ==
  \E k \in NonStreamingCalls(q) :
    q.calls[k].result = "failed" \/ q.calls[k].body = "rejected"

\* C9: the non-streaming call is made only after the four streaming
\* candidates have failed. Once it has failed too, exactly one error event
\* has been written and nothing else (no chunk, no done), the session is
\* deleted and the connection ended; before that, and unless the call gave
\* a parsed body, no error event has been written. (Violated: a candidate
\* that fails after it connected and relayed a chunk counts as failed, and
\* its chunk, or the done of its timer, is written besides the error.)
C9_AllFailed ==
  \A r \in Requests :
    LET q == req[r]
    IN Found(r) =>
         IF FallbackFailed(q)
         THEN /\ Len(q.calls) = 5
              /\ q.out = << AllFailedEvent >>
              /\ q.ended
              /\ q.sessionId \notin DOMAIN sessions
         ELSE (\A k \in NonStreamingCalls(q) : q.calls[k].body # "parsed")
                => \A k \in 1..Len(q.out) : q.out[k].event # "error"

\* C10: when the body of the streaming candidate holds a [DONE] or "[DONE]"
\* payload, a done event has been written and the chunks written are those
\* of the payloads before the first sentinel; no payload after it yields one.
C10_DoneStopsChunks ==
  \A r \in Requests :
    LET q == req[r]
        P == ReceivedPayloads(q)
        S == { k \in 1..Len(P) : IsSentinel(P[k]) }
    IN S # {} =>
         LET first == CHOOSE k \in S : \A j \in S : k <= j
         IN /\ \E k \in 1..Len(q.out) : q.out[k] = DoneEvent
            /\ Chunks(q.out) = DerivedChunks(SubSeq(P, 1, first - 1))

\* A sentinel arrived after a chunk and with another payload behind it in
\* the same read.
C10_Witness ==
  \E r \in Requests :
    LET P == ReceivedPayloads(req[r])
    IN /\ \E k \in 1..Len(P) : IsSentinel(P[k]) /\ 1 < k /\ k < Len(P)
       /\ Chunks(req[r].out) # <<>>
       /\ Last(req[r].out) = DoneEvent

\* A payload the read loop can act on: a sentinel or one JSON document.
WellFormed(p) == IsSentinel(p) \/ JSONParse(p).ok

\* C11: while only the read loop has written to the client (the timer has
\* not fired and no non-streaming call was made), what was written and
\* whether the attempt was ended are exactly what the well-formed payloads of
\* the body alone produce: a payload that is not JSON adds no event, ends
\* nothing, and takes nothing from the payloads after it.
C11_MalformedIsSkipped ==
  \A r \in Requests :
    LET q == req[r]
        P == ReceivedPayloads(q)
        h == handlePayloads(SelectSeq(P, WellFormed), <<>>)
    IN ( /\ \E k \in 1..Len(P) : ~WellFormed(P[k])
         /\ q.timeoutHandle # "fired"
         /\ NonStreamingCalls(q) = {} )
       => /\ q.out = h.sent
          /\ q.ended = h.completed
          /\ HasTerminal(q.out) = h.completed

\* A payload that is not JSON was followed by a well-formed one, whose chunk
\* was written, and the attempt is still reading.
C11_Witness ==
  \E r \in Requests :
    LET P == ReceivedPayloads(req[r])
    IN /\ \E k, j \in 1..Len(P) : k < j /\ ~WellFormed(P[k]) /\ JSONParse(P[j]).ok
       /\ Chunks(req[r].out) # <<>>
       /\ req[r].pc = "reading"
       /\ ~req[r].ended

\* The payloads the loop reaches when the text arrives in a single read:
\* all of them up to and including the first one at which it returns (a
\* sentinel or a payload with a finish reason).
RECURSIVE UpToCompleting(_)
UpToCompleting(ps) ==
  IF ps = <<>> THEN <<>>
  ELSE IF IsSentinel(Head(ps))
          \/ (JSONParse(Head(ps)).ok /\ Truthy(JSONParse(Head(ps)).data.finishReason))
       THEN << Head(ps) >>
       ELSE << Head(ps) >> \o UpToCompleting(Tail(ps))

\* C12: the payloads the read loop has extracted over the successive reads
\* of a body (decode, append to the buffer, split on the blank line, keep the
\* last element) are the payloads extracted from the same bytes taken as
\* one contiguous text, however the body was cut into reads.
C12_ChunkBoundaryIndependence ==
  \A r \in Requests : req[r].extracted = UpToCompleting(ReceivedPayloads(req[r]))

\* A body was delivered in several reads, one of which ended in the middle
\* of a block, and payloads were extracted before and after the cut.
C12_Witness ==
  \E r \in Requests :
    /\ req[r].reads >= 2
    /\ req[r].received = ParserText1
    /\ req[r].extracted = << << JHi >>, << JThere >> >>

\* The step in which the timer of r fires.
TimerFires(r) == req[r].timeoutHandle = "armed" /\ req'[r].timeoutHandle = "fired"

\* C13: a timer that fires while its attempt is reading the body writes the
\* done event and nothing else, cancels the reader, deletes the session and
\* ends the response; after a timer has fired no chunk is written; a timer
\* keeps its deadline while it is armed, whatever is read, and is never
\* armed a second time.
C13_TimeoutEmitsDone ==
  [][ \A r \in Requests :
        /\ (TimerFires(r) /\ req[r].pc = "reading")
             => /\ req'[r].out = Append(req[r].out, DoneEvent)
                /\ req'[r].reader = "cancelled"
                /\ req[r].sessionId \notin DOMAIN sessions'
                /\ req'[r].ended
        /\ req[r].timeoutHandle = "fired"
             => /\ Chunks(req'[r].out) = Chunks(req[r].out)
                /\ req'[r].reader # "open"
        /\ (req[r].timeoutHandle = "armed" /\ req'[r].timeoutHandle = "armed")
             => req'[r].deadline = req[r].deadline
        /\ req[r].timeoutHandle \in {"cleared", "fired"}
             => req'[r].timeoutHandle = req[r].timeoutHandle ]_vars

\* The timer has just fired on an attempt that had streamed chunks and was
\* still reading: the done event is the last event and the reader is
\* cancelled, its pending read not yet resolved.
C13_Witness ==
  \E r \in Requests :
    /\ req[r].timeoutHandle = "fired"
    /\ req[r].pc = "reading"
    /\ req[r].reads = MaxReads
    /\ Chunks(req[r].out) # <<>>
    /\ Last(req[r].out) = DoneEvent
    /\ req[r].reader = "cancelled"
    /\ req[r].ended

\* C14: more than 60 seconds after a stream request found its session, the
\* connection is over (ended by the server or closed by the client) and the
\* session is deleted, whatever the upstream does.
C14_AttemptBounded ==
  \A r \in Requests :
    (Found(r) /\ now - req[r].arrivedAt > StreamTimeoutMs)
      => /\ req[r].ended \/ req[r].closed
         /\ req[r].sessionId \notin DOMAIN sessions

\* The session POST /prepare stores for the body {}.
EmptyBodySession(session) ==
  /\ session.model = DefaultModel
  /\ session.messages = << Msg("system", "You are a helpful AI assistant."),
                           Msg("user", "Hello!") >>

\* C15: a request on the session of body {} whose first candidate streamed
\* the payloads "Hi", " there" and [DONE] has written exactly chunk "Hi",
\* chunk " there", done; the response is ended and the id is no longer in
\* the store.
C15_Scenario ==
  \A r \in Requests :
    LET q == req[r] IN
    ( /\ EmptyBodySession(q.session)
      /\ Len(q.calls) = 1 /\ q.calls[1].result = "ok"
      /\ ReceivedPayloads(q) = << << JHi >>, << JThere >>, << "[DONE]" >> >> )
    => /\ q.out = << ChunkEvent(<< "Hi" >>), ChunkEvent(<< SP, "there" >>), DoneEvent >>
       /\ q.ended
       /\ q.sessionId \notin DOMAIN sessions

HasRole(ms, role) == \E k \in 1..Len(ms) : ms[k].role = role

\* What the claim requires of the session stored under id for a body.
Normalized(body, id, store) ==
  /\ id \in DOMAIN store
  /\ store[id].model = (IF body.model = "" THEN DefaultModel ELSE body.model)
  /\ LET supplied == IF body.messages.isArray THEN body.messages.items ELSE <<>>
         ms == store[id].messages
         a == IF HasRole(supplied, "system") THEN 0 ELSE 1
         b == IF HasRole(supplied, "user") THEN 0 ELSE 1
     IN /\ HasRole(ms, "system") /\ HasRole(ms, "user")
        /\ Len(ms) = a + Len(supplied) + b
        /\ SubSeq(ms, a + 1, a + Len(supplied)) = supplied
        /\ a = 1 => ms[1].role = "system"
        /\ b = 1 => ms[Len(ms)].role = "user"
        /\ supplied = <<>> => << ms[1].role, ms[Len(ms)].role >> = << "system", "user" >>

\* C16: POST /prepare with any body stores, under a fresh id, a session with
\* the body's model or the default one when the model is absent, and with
\* the supplied turns in their order, preceded by a system turn when they
\* held none and followed by a user turn when they held none; no supplied
\* turns give exactly [system, user].
C16_PrepareNormalizes ==
  [][ \A body \in AllPrepareBodies :
        Prepare(body) =>
          /\ nextId \notin DOMAIN sessions
          /\ Normalized(body, nextId, sessions')
          /\ \A id \in DOMAIN sessions : sessions'[id] = sessions[id] ]_vars

\* A session stored for a body without a model whose only turn was an
\* assistant turn: a system turn was put before it and a user turn after.
C16_Witness ==
  \E id \in DOMAIN sessions :
    /\ sessions[id].model = DefaultModel
    /\ sessions[id].messages =
         << Msg("system", "You are a helpful AI assistant."),
            Msg("assistant", "1"),
            Msg("user", "Hello!") >>

\* C17: the step in which a request arrives with an id that is not in the
\* store writes the one error event, ends the response, issues no upstream
\* call, arms no timer and leaves the store as it was; nothing is written,
\* called or armed for that request afterwards. (Violated: an id that names
\* a property every object inherits is not in the store, yet the lookup
\* yields a value and the request is served.)
C17_InvalidIdRejected ==
  [][ \A r \in Requests :
        /\ (Arrives(r) /\ req'[r].sessionId \notin DOMAIN sessions)
             => /\ Rejected(req'[r])
                /\ req'[r].timeoutHandle = "none"
                /\ req'[r].late = 0
                /\ sessions' = sessions
        /\ Rejected(req[r])
             => /\ Rejected(req'[r])
                /\ req'[r].timeoutHandle = "none"
                /\ req'[r].late = 0 ]_vars

\* C18: once the client of a request that found its session has
\* disconnected, no upstream read of the request is left open, its session
\* is not in the store, and no event is written to the connection.
C18_DisconnectStops ==
  \A r \in Requests :
    (Found(r) /\ req[r].closed)
      => /\ req[r].reader # "open"
         /\ req[r].sessionId \notin DOMAIN sessions
         /\ req[r].afterClose = 0

\* C19: sendSSE is never called on a response after res.end() was called
\* on it.
C19_NoWriteAfterEnd ==
  \A r \in Requests : req[r].late = 0

\* The content the claim derives from a parsed payload: the trimmed value of
\* the first present field among delta.content, message.content and text.
FirstPresent(data) ==
  IF data.deltaContent.defined THEN trim(data.deltaContent.value)
  ELSE IF data.messageContent.defined THEN trim(data.messageContent.value)
  ELSE IF data.text.defined THEN trim(data.text.value)
  ELSE <<>>

RECURSIVE FirstPresentChunks(_)
FirstPresentChunks(ps) ==
  IF ps = <<>> THEN <<>>
  ELSE LET p == Head(ps)
           j == JSONParse(p)
           c == FirstPresent(j.data)
       IN IF IsSentinel(p) THEN <<>>
          ELSE IF ~j.ok THEN FirstPresentChunks(Tail(ps))
          ELSE (IF c # <<>> THEN << ChunkEvent(c) >> ELSE <<>>)
               \o (IF Truthy(j.data.finishReason) THEN <<>>
                   ELSE FirstPresentChunks(Tail(ps)))

\* C20: the chunks written from the body of the streaming candidate carry,
\* for each payload, the trimmed value of the first present field among
\* delta.content, message.content and text.
C20_FirstPresentFieldWins ==
  \A r \in Requests :
    NonStreamingCalls(req[r]) = {}
      => Chunks(req[r].out) = FirstPresentChunks(ReceivedPayloads(req[r]))

\* A candidate of the request connected and its body is or was read.
ReachedStreaming(q) == \E k \in StreamingCalls(q) : q.calls[k].result = "ok"

\* A JSON payload with a finish reason that is not null or empty.
HasFinish(p) == JSONParse(p).ok /\ Truthy(JSONParse(p).data.finishReason)
\* A JSON payload whose extracted content is not empty.
HasContent(p) == JSONParse(p).ok /\ extractContent(JSONParse(p).data).content # <<>>
ContentChunk(p) == ChunkEvent(extractContent(JSONParse(p).data).content)

RECURSIVE ContentChunks(_)
ContentChunks(ps) ==
  IF ps = <<>> THEN <<>>
  ELSE (IF HasContent(Head(ps)) THEN << ContentChunk(Head(ps)) >> ELSE <<>>)
       \o ContentChunks(Tail(ps))

\* C21: when the first completing payload of the body is a JSON payload with
\* a finish reason, the events written are one chunk for every payload with
\* content before it, its own content as one chunk if not empty, and one
\* done; the timer is cleared, the reader cancelled, the session deleted,
\* the response ended, and no payload after it yields an event.  While the
\* body has had no completing payload and only the read loop has written,
\* one chunk per payload with content was written and the response is open.
C21_FinishReasonCompletes ==
  \A r \in Requests :
    LET q == req[r]
        P == ReceivedPayloads(q)
        E == { k \in 1..Len(P) : IsSentinel(P[k]) \/ HasFinish(P[k]) }
    IN IF E # {}
       THEN LET first == CHOOSE k \in E : \A j \in E : k <= j
            IN HasFinish(P[first])
                 => /\ q.out = Append(ContentChunks(SubSeq(P, 1, first)), DoneEvent)
                    /\ q.timeoutHandle = "cleared"
                    /\ q.reader = "cancelled"
                    /\ q.sessionId \notin DOMAIN sessions
                    /\ q.ended
                    /\ q.pc = "returned"
                    /\ q.late = 0
       ELSE (ReachedStreaming(q) /\ q.timeoutHandle # "fired"
               /\ NonStreamingCalls(q) = {})
              => /\ q.out = ContentChunks(P)
                 /\ ~q.ended
                 /\ (q.pc = "reading" /\ ~q.closed)
                      => q.reader = "open" /\ q.timeoutHandle = "armed"

\* A chunk was streamed, then a payload with content and a finish reason
\* arrived: its content and done were written and the attempt is over.
C21_Witness ==
  \E r \in Requests :
    /\ ReceivedPayloads(req[r]) = << << JHi >>, << JFinish >> >>
    /\ req[r].out = << ChunkEvent(<< "Hi" >>), ChunkEvent(<< "!" >>), DoneEvent >>
    /\ req[r].ended

\* C22: a request that has issued the non-streaming call has had no
\* candidate that connected and streamed.
C22_FallbackOnlyBeforeStreaming ==
  \A r \in Requests :
    NonStreamingCalls(req[r]) # {} => ~ReachedStreaming(req[r])

\* The text the claim expects of the body of the non-streaming call.
FullText(doc) ==
  IF JsonDocs[doc].messageContent.defined /\ JsonDocs[doc].messageContent.value # <<>>
  THEN JsonDocs[doc].messageContent.value
  ELSE IF JsonDocs[doc].text.defined /\ JsonDocs[doc].text.value # <<>>
  THEN JsonDocs[doc].text.value
  ELSE << "No response" >>

\* C23: when the non-streaming call has returned and its body parses, for a
\* request none of whose candidates connected, the events written are
\* exactly one chunk with the full text of the body followed by one done,
\* the session is deleted and the response ended, and nothing is written
\* afterwards. (Violated: for the body `null` reading the text throws and
\* the error event is written instead.)
C23_FallbackSuccess ==
  [][ \A r \in Requests :
        /\ \A doc \in FallbackDocs :
             (FallbackOk(r, doc) /\ ~ReachedStreaming(req[r]))
               => /\ Len(req[r].calls) = 5
                  /\ \A k \in 1..4 : req[r].calls[k].result = "failed"
                  /\ req'[r].out = << ChunkEvent(FullText(doc)), DoneEvent >>
                  /\ req'[r].ended
                  /\ req[r].sessionId \notin DOMAIN sessions'
        /\ (req[r].pc = "returned" /\ ~ReachedStreaming(req[r]))
             => req'[r].out = req[r].out /\ req'[r].late = 0 ]_vars

\* The step in which the setInterval callback runs.
SweepRuns == nextSweep' # nextSweep

Age(id) == now - sessions[id].createdAt

\* C24: a sweep runs when a multiple of 5 minutes is reached; it removes the
\* sessions older than 10 minutes and no other, leaves the sessions it
\* keeps and every request as they are, and is the next time due 5 minutes
\* later; no session in the store is older than 15 minutes once the
\* callbacks due have run.
C24_SweepRemovesExpired ==
  [][ /\ SweepRuns
           => /\ now = nextSweep
              /\ nextSweep' = nextSweep + SweepIntervalMs
              /\ DOMAIN sessions' = { id \in DOMAIN sessions : Age(id) <= SessionTtlMs }
              /\ \A id \in DOMAIN sessions' : sessions'[id] = sessions[id]
              /\ req' = req
              /\ \A id \in DOMAIN sessions' :
                   now - sessions'[id].createdAt <= SessionTtlMs
      /\ \A id \in DOMAIN sessions :
           Age(id) <= SessionTtlMs + SweepIntervalMs
      /\ \A id \in DOMAIN sessions :
           (Age(id) <= SessionTtlMs /\ SweepRuns) => id \in DOMAIN sessions' ]_vars

\* A sweep has removed the session of a request that is still waiting for
\* its upstream, 15 minutes after the session was created.
C24_Witness ==
  \E r \in Requests :
    /\ req[r].pc \in { "connecting", "reading" }
    /\ ~req[r].ended
    /\ req[r].sessionId \notin DOMAIN sessions
    /\ now - req[r].session.createdAt = SessionTtlMs + SweepIntervalMs

\* The handler has left the read loop and returned although the body of the
\* streaming candidate held no sentinel and no finish reason.
BodyEnded(q) ==
  /\ q.pc = "returned"
  /\ ReachedStreaming(q)
  /\ NonStreamingCalls(q) = {}
  /\ \A k \in 1..Len(ReceivedPayloads(q)) :
       ~IsSentinel(ReceivedPayloads(q)[k]) /\ ~HasFinish(ReceivedPayloads(q)[k])

\* Until the timer fires it stays armed, nothing terminal is written and the
\* lookup of the id still yields the session the request was started with;
\* once it has fired, done was written once, after the chunks, the session
\* is deleted and the response ended.
TimerEndsBody(q) ==
  IF q.timeoutHandle = "fired"
  THEN /\ q.out = Append(ContentChunks(ReceivedPayloads(q)), DoneEvent)
       /\ q.ended
       /\ q.sessionId \notin DOMAIN sessions
       /\ q.late = 0
  ELSE /\ q.timeoutHandle = "armed"
       /\ now <= q.deadline
       /\ q.out = ContentChunks(ReceivedPayloads(q))
       /\ ~q.ended
       /\ sessionOf(q.sessionId).found
       /\ sessionOf(q.sessionId).session = q.session

\* C25: a request whose streaming body ended without a sentinel or finish
\* reason keeps its session and writes nothing terminal until the timer
\* armed at the connect fires, and the timer does fire: done is then written
\* exactly once, the session deleted and the response ended. (Violated: a
\* client that disconnects after the body ended clears the timer, so done is
\* never written, and the session can leave the store before the timer
\* fires.)
C25_BodyEndWithoutDone ==
  /\ [](\A r \in Requests : BodyEnded(req[r]) => TimerEndsBody(req[r]))
  /\ \A r \in Requests :
       BodyEnded(req[r]) ~> (req[r].timeoutHandle = "fired" /\ req[r].ended)

====
